---- MODULE Spec2Model ----
(***************************************************************************)
(* The photo synchronisation engine of rn-tournament-players:              *)
(*   - the rate-limited request gate  (runWithRateLimit)                   *)
(*   - the retry policy               (withRetry, isRetryableStatus)       *)
(*   - the upload and download paths  (uploadAllPhotos, syncOnce,          *)
(*                                     downloadMissingPhotos, downloadFile)*)
(*   - the local photo store          (savePhoto, markUploaded, ...)       *)
(* Every asynchronous function is cut at its awaits: one action is the     *)
(* code that runs between two awaits of one caller.                        *)
(***************************************************************************)
EXTENDS Integers, Sequences, FiniteSets, TLC

(***************************************************************************)
(* Program constants.                                                      *)
(***************************************************************************)
RATE_LIMIT_MS == 200
RETRY_ATTEMPTS == 3
RETRY_BASE_DELAY_MS == 400
RETRY_MAX_DELAY_MS == 4000

(***************************************************************************)
(* Bounds of the model.                                                    *)
(***************************************************************************)
\* the largest `attempts` option a direct caller of withRetry passes
MaxAttempts == 6
\* the step by which the wall clock advances on its own, in ms
TickMs == 100
\* Date.now() when the module is loaded (lastRequestTime is 0 then)
StartTime == 1000
\* runWithRateLimit calls made by one direct caller
MaxCalls == 1
\* calls of an engine function made by one of its callers
MaxRuns == 1
\* photos the camera saves
MaxSaves == 1
\* files in the photo directory at the start
MaxFiles == 2
\* files, and objects, at the start when two callers are at work together
MaxShared == 1
\* objects in the bucket at the start
MaxRemote == 2
\* files and objects at the start, together
MaxObjects == 3
\* file names a run tries without a listing (three per player name)
MaxDirect == 3
\* runs of the sync of the settings screen, one after the other
MaxSyncs == 2
\* crashes of the application during a sync
MaxCrashes == 1
\* photoExists calls made by the players screen
MaxLookups == 2
\* such runs when transport calls can fail on their own
MaxFaultySyncs == 1

Min(a, b) == IF a <= b THEN a ELSE b
Max(a, b) == IF a >= b THEN a ELSE b

\* direct callers of withRetry / runWithRateLimit
Drivers == {"t1", "t2", "t3"}
\* callers of the engine: the sync of the settings screen ("settings"), the
\* "sync now" of the players screen ("ui"), the background sync hook ("bg")
\* and the photo capture of the players screen ("cam")
Callers == {"settings", "ui", "bg", "cam"}
Procs == Drivers \cup Callers

(***************************************************************************)
(* File contents and response bodies: what isValidImageFile looks at.      *)
(***************************************************************************)
\* size in bytes; magic: the signature of the leading bytes; marker: the
\* first 4096 characters hold '<html', '<!doctype', 'access denied' or
\* 'signature does not match'; readable: readAsStringAsync can read the
\* file; utf8: it can decode the file as UTF-8
\* the n-th photo the camera took
Capture(n) ==
    [kind |-> "capture", ver |-> n, size |-> 204800, magic |-> "jpg",
     marker |-> FALSE, readable |-> TRUE,
     utf8 |-> TRUE]
\* an image stored in the bucket by another device
RemoteImage ==
    [kind |-> "image", ver |-> 0, size |-> 51200, magic |-> "png",
     marker |-> FALSE, readable |-> TRUE,
     utf8 |-> TRUE]
\* an HTML page a proxy or the server answers with
HtmlPage ==
    [kind |-> "html", ver |-> 0, size |-> 2048, magic |-> "none",
     marker |-> TRUE, readable |-> TRUE,
     utf8 |-> TRUE]
\* the short JSON body of an error response
ErrorBody ==
    [kind |-> "error", ver |-> 0, size |-> 120, magic |-> "none",
     marker |-> FALSE, readable |-> TRUE,
     utf8 |-> TRUE]
\* the JSON array of the objects of the bucket
ListingBody ==
    [kind |-> "listing", ver |-> 0, size |-> 0, magic |-> "none",
     marker |-> FALSE, readable |-> TRUE,
     utf8 |-> TRUE]
\* a JSON array without elements, or JSON that is not an array
EmptyBody ==
    [kind |-> "empty", ver |-> 0, size |-> 0, magic |-> "none",
     marker |-> FALSE, readable |-> TRUE,
     utf8 |-> TRUE]
\* no such file, no body
NoFile ==
    [kind |-> "none", ver |-> 0, size |-> 0, magic |-> "none",
     marker |-> FALSE, readable |-> TRUE,
     utf8 |-> TRUE]

\* HTTP statuses a task answers with
Statuses == {200, 400, 401, 403, 404, 408, 429, 500, 503}

\* what one invocation of a task yields: a response, or an exception raised
\* by the task of caller `by`
ResponseWith(s, body) ==
    [threw |-> FALSE, status |-> s, by |-> "", body |-> body]
Response(s) == ResponseWith(s, NoFile)
Thrown(p) == [threw |-> TRUE, status |-> 0, by |-> p, body |-> NoFile]
NoOutcome == [threw |-> FALSE, status |-> 0, by |-> "", body |-> NoFile]

VARIABLES
    rateLimiter,      \* the promise chain of runWithRateLimit
    lastRequestTime,  \* module variable of the gate
    tickets,          \* history: runWithRateLimit calls of direct callers
    gateStarts,       \* history: the latest start of an operation by the gate
    proc,             \* every caller's position and locals
    config,           \* which of the Supabase credentials are set
    network,          \* whether transport calls can fail on their own
    photoDir,         \* PHOTO_DIR: file name -> content
    pendingUploads,   \* AsyncStorage[PENDING_UPLOADS_KEY]
    bucket,           \* the remote bucket: object name -> content
    captures,         \* photos the camera has saved so far
    requests,         \* history: the transport calls issued
    uploadedOk,       \* history: paths an upload of which returned 2xx
    dequeued          \* history: paths a write removed from the queue

gateVars == <<rateLimiter, lastRequestTime, tickets, gateStarts>>
storeVars == <<config, network, photoDir, pendingUploads, bucket, captures>>
histVars == <<requests, uploadedOk, dequeued>>
vars == <<gateVars, proc, storeVars, histVars>>

(***************************************************************************)
(* File names and paths are sequences of one-character strings.            *)
(***************************************************************************)
Range(s) == {s[i] : i \in 1..Len(s)}

PNG == <<".", "p", "n", "g">>
JPG == <<".", "j", "p", "g">>
JPEG == <<".", "j", "p", "e", "g">>

\* `${FileSystem.documentDirectory}photos/`
PHOTO_DIR == <<"d", "/">>

toLowerCase(s) ==
    [i \in 1..Len(s) |-> CASE s[i] = "A" -> "a"
                           [] s[i] = "B" -> "b"
                           [] s[i] = "C" -> "c"
                           [] OTHER -> s[i]]

\* 1-based position of the first occurrence of pat in s, 0 when there is none
indexOf(s, pat) ==
    LET hits == {i \in 1..(Len(s) - Len(pat) + 1) :
                     SubSeq(s, i, i + Len(pat) - 1) = pat}
    IN  IF hits = {} THEN 0 ELSE CHOOSE i \in hits : \A j \in hits : i <= j

lastIndexOf(s, c) ==
    LET hits == {i \in 1..Len(s) : s[i] = c}
    IN  IF hits = {} THEN 0 ELSE CHOOSE i \in hits : \A j \in hits : i >= j

\* String.prototype.replace with a string pattern: the first occurrence only
replace(s, pat, rep) ==
    LET i == indexOf(s, pat)
    IN  IF i = 0 THEN s
        ELSE SubSeq(s, 1, i - 1) \o rep \o SubSeq(s, i + Len(pat), Len(s))

RECURSIVE trim(_)
trim(s) ==
    IF s = <<>> THEN s
    ELSE IF s[1] = " " THEN trim(Tail(s))
    ELSE IF s[Len(s)] = " " THEN trim(SubSeq(s, 1, Len(s) - 1))
    ELSE s

RECURSIVE split(_, _)
split(s, c) ==
    LET i == indexOf(s, <<c>>)
    IN  IF i = 0 THEN <<s>>
        ELSE <<SubSeq(s, 1, i - 1)>> \o split(SubSeq(s, i + 1, Len(s)), c)

composeImageFileName(name) ==
    LET parts == split(name, ",")
        sName == IF Len(parts) > 1
                 THEN trim(parts[2]) \o trim(parts[1])
                 ELSE name
    IN  toLowerCase(SelectSeq(sName, LAMBDA c : c # " ")) \o PNG

basename(path) ==
    LET idx == lastIndexOf(path, "/")
    IN  IF idx = 0 THEN path ELSE SubSeq(path, idx + 1, Len(path))

splitPath(fullPath) ==
    LET lastSlash == lastIndexOf(fullPath, "/")
    IN  IF lastSlash = 0
        THEN [dir |-> <<>>, name |-> fullPath]
        ELSE [dir |-> SubSeq(fullPath, 1, lastSlash - 1),
              name |-> SubSeq(fullPath, lastSlash + 1, Len(fullPath))]

joinPath(dir, name) ==
    LET base == IF dir # <<>> /\ dir[Len(dir)] = "/"
                THEN SubSeq(dir, 1, Len(dir) - 1)
                ELSE dir
    IN  base \o <<"/">> \o name

\* the player names of the tournament
PlayerNames == {<<"a">>, <<"B">>}

\* the credentials that can be set
Configs ==
    {[url |-> TRUE, anonKey |-> TRUE], [url |-> FALSE, anonKey |-> TRUE],
     [url |-> TRUE, anonKey |-> FALSE]}

\* the callers that are at work together
ActiveSets == {{"settings"}, {"ui", "cam"}, {"bg", "cam"}, {"ui", "bg"}}

(***************************************************************************)
(* The files of the device.                                                *)
(***************************************************************************)
\* the content of the file at a path (getInfoAsync / the body uploadAsync reads)
ReadFile(path) ==
    LET n == Len(PHOTO_DIR)
    IN  IF /\ Len(path) > n
           /\ SubSeq(path, 1, n) = PHOTO_DIR
           /\ SubSeq(path, n + 1, Len(path)) \in DOMAIN photoDir
        THEN photoDir[SubSeq(path, n + 1, Len(path))]
        ELSE NoFile

\* a directory or bucket after a file has been written
WriteFile(dir, name, content) ==
    [f \in DOMAIN dir \cup {name} |-> IF f = name THEN content ELSE dir[f]]

(***************************************************************************)
(* Time.  Time stamps are kept relative to the present: Date.now() always  *)
(* reads Now, and when d ms pass every time stamp moves d ms into the      *)
(* past.  A time stamp older than RATE_LIMIT_MS is kept at that age: the   *)
(* gate reads lastRequestTime only in lastRequestTime + RATE_LIMIT_MS -    *)
(* now, which stays <= 0 from that age on.                                 *)
(***************************************************************************)
Now == StartTime

\* a time stamp of the past
Past(t) == Max(t, Now - RATE_LIMIT_MS)

\* the time a pending sleep(ms) still has to wait once d ms have passed
Slept(r, d) ==
    IF r.pc \in {"gate_sleep", "retry_backoff"}
    THEN [r EXCEPT !.wakeAt = Max(@ - d, Now)]
    ELSE r

\* every caller once d ms have passed and the caller p has become r1
Elapsed(p, r1, d) ==
    [q \in DOMAIN proc |-> IF q = p THEN r1 ELSE Slept(proc[q], d)]

(***************************************************************************)
(* The retry policy.                                                       *)
(***************************************************************************)
\* variants of the classification with one class of status misplaced
isRetryableStatusOnly5xx(status) == status >= 500
isRetryableStatusAny4xx(status) == status >= 400

isRetryableStatus(status) == status = 408 \/ status = 429 \/ status >= 500

\* the shouldRetry option every call site passes
shouldRetry(res) == isRetryableStatus(res.status)

\* the delay without its cap
RetryDelayUncapped(attempt) == RETRY_BASE_DELAY_MS * 2 ^ (attempt - 1)

RetryDelay(attempt) ==
    Min(RETRY_BASE_DELAY_MS * 2 ^ (attempt - 1), RETRY_MAX_DELAY_MS)

\* the frames of direct callers keep the history of their outcomes (outs)
\* and of their sleeps
Traced(r) == r.op \in {"task", "job"}

\* withRetry, one pass of the loop body after `await task()` has settled
\* with `out`: return the result, leave the loop and throw, or sleep.
AfterAttempt(r, out, now) ==
    IF ~out.threw /\ ~shouldRetry(out)
    THEN [r EXCEPT !.pc = "returned", !.result = out]
    ELSE LET lastError == IF out.threw THEN out
                          ELSE Thrown("withRetry")
         IN  IF r.attempt = r.attempts
             THEN [r EXCEPT !.pc = "threw", !.result = lastError]
             ELSE [r EXCEPT !.pc = "retry_backoff",
                            !.wakeAt = now + RetryDelay(r.attempt),
                            !.sleeps = IF Traced(r)
                                       THEN Append(@, RetryDelay(r.attempt))
                                       ELSE @]

(***************************************************************************)
(* The rate-limited gate.  rateLimiter.waiting lists, in the order of the  *)
(* runWithRateLimit calls, the callers whose `work` has not settled: the   *)
(* head is the one whose chained callback may run.  rateLimiter.rejected   *)
(* names the caller whose error the chain promise carries ("" when the     *)
(* promise is fulfilled or pending).                                       *)
(***************************************************************************)
\* the chain without its catch: the error of `by` stays on the chain
CatchMissing(by) == by

\* `.catch(() => {})` on the chain: the error of `by` is not passed on
CatchIgnore(by) == ""

\* the chained callback up to the call of task()
Admit(r, last, now) ==
    LET wait == last + RATE_LIMIT_MS - now
    IN  IF wait > 0
        THEN [r EXCEPT !.pc = "gate_sleep", !.wakeAt = now + wait]
        ELSE [r EXCEPT !.pc = "task_running", !.calls = @ + 1]

\* a gate whose callback does not wait for the chain
InvokeUnchained(r, rl, last, now, ticket) ==
    IF r.viaGate THEN Admit([r EXCEPT !.ticket = ticket], last, now)
    ELSE [r EXCEPT !.pc = "task_running", !.calls = @ + 1]

\* the caller invokes the task of its frame: through the gate, or directly
Invoke(r, rl, last, now, ticket) ==
    IF r.viaGate
    THEN LET q == [r EXCEPT !.ticket = ticket]
         IN  IF rl.waiting = <<>> /\ rl.rejected = ""
             THEN Admit(q, last, now)
             ELSE [q EXCEPT !.pc = "gate_queued"]
    ELSE [r EXCEPT !.pc = "task_running", !.calls = @ + 1]

\* the chain after the caller has invoked the task of its frame
Chained(p, r, rl) ==
    IF r.viaGate THEN [rl EXCEPT !.waiting = Append(@, p)] ELSE rl

\* the chain after the head's work has settled with `out`
Released(r, rl, out) ==
    IF r.viaGate
    THEN [waiting |-> Tail(rl.waiting),
          rejected |-> IF out.threw THEN CatchIgnore(out.by) ELSE ""]
    ELSE rl

\* lastRequestTime after the task of a frame has settled with `out`
Stamp(r, last, out, now) ==
    IF r.viaGate /\ r.pc = "task_running" /\ ~out.threw THEN now ELSE last

\* the caller's frame after `await task()` / `await work` has settled
Settle(r, out, now) ==
    LET s == [r EXCEPT !.outs = IF Traced(r) THEN Append(@, out) ELSE @]
    IN  IF r.viaRetry
        THEN AfterAttempt(s, out, now)
        ELSE [s EXCEPT !.pc = IF out.threw THEN "threw" ELSE "returned",
                       !.result = out]

\* the history of gate starts once d ms have passed and the frame r has
\* been stepped: how many starts (up to two), the time of the latest one and
\* the time between it and the one before
NoteStart(r, d) ==
    LET at == Past(gateStarts.at - d)
    IN  IF r.viaGate /\ r.pc = "task_running"
        THEN [n |-> Min(gateStarts.n + 1, 2), at |-> Now, gap |-> Now - at]
        ELSE [gateStarts EXCEPT !.at = at]

\* the transport calls of the engine: FileSystem.uploadAsync, fetch of the
\* listing, FileSystem.downloadAsync
TransportOps == {"upload", "list", "download"}

\* a call site that leaves the gate out: withRetry(() => transport(...))
RetryOnly == [retry |-> TRUE, gate |-> FALSE]

\* how a call site wraps its transport call:
\* withRetry(() => runWithRateLimit(() => transport(...)), {shouldRetry})
TransportWrap == [retry |-> TRUE, gate |-> TRUE]

\* the service without gate and retry policy awaits the transport call itself
TransportBare == [retry |-> FALSE, gate |-> FALSE]

\* statuses the storage server answers an upload with
UploadStatuses == {200, 400, 503}

\* statuses the storage server answers a listing and a download with
ListStatuses == {403, 503}
DownloadStatuses == {404, 409, 503}

\* what the storage server answers when nothing fails on the way: an upload
\* is stored, the listing shows the bucket, an object is served, a name that
\* is not in the bucket is not found; uploadAsync throws without a file
Answer(p, r) ==
    CASE r.op = "upload" ->
           IF r.inflight = NoFile THEN Thrown(p) ELSE Response(200)
      [] r.op = "list" -> ResponseWith(200, ListingBody)
      [] r.op = "download" ->
           IF r.fileName \in DOMAIN bucket
           THEN ResponseWith(200, bucket[r.fileName])
           ELSE ResponseWith(404, ErrorBody)
      [] OTHER -> NoOutcome

\* what a transport call can yield; a listing that shows no object sends
\* the run to its direct attempts, which MaxDirect bounds
TransportOutcomes(p, r) ==
    CASE network = "reliable" -> {Answer(p, r)}
      [] r.op = "upload" ->
           IF r.inflight = NoFile
           THEN {Thrown(p)}
           ELSE {Response(s) : s \in UploadStatuses} \cup {Thrown(p)}
      [] r.op = "list" ->
           {ResponseWith(200, ListingBody), Thrown(p)}
             \cup {ResponseWith(s, ErrorBody) : s \in ListStatuses}
             \cup (IF 3 * Len(r.players) <= MaxDirect
                   THEN {ResponseWith(200, EmptyBody)}
                   ELSE {})
      [] r.op = "download" ->
           {ResponseWith(200, HtmlPage), Thrown(p)}
             \cup {ResponseWith(s, ErrorBody) : s \in DownloadStatuses}
             \cup (IF r.fileName \in DOMAIN bucket
                   THEN {ResponseWith(200, bucket[r.fileName])}
                   ELSE {})
      [] OTHER -> {}

\* what the task of a waiting frame can yield
Outcomes(p, r) ==
    IF r.pc = "gate_rejected"
    THEN {Thrown(rateLimiter.rejected)}
    ELSE CASE r.op = "job" -> {Response(200), Thrown(p)}
           [] r.op = "task" -> {Response(s) : s \in Statuses} \cup {Thrown(p)}
           [] OTHER -> TransportOutcomes(p, r)

\* the frame r once its transport call has been issued: uploadAsync reads
\* the file at localPath
Launched(r) ==
    IF r.pc = "task_running" /\ r.op = "upload"
    THEN [r EXCEPT !.inflight = ReadFile(r.localPath)]
    ELSE r

\* the history of transport calls once the frame r has been stepped
NoteRequest(r) ==
    IF r.pc = "task_running" /\ r.op \in TransportOps
    THEN requests \cup
           {[fn |-> r.fn, op |-> r.op, inRetry |-> r.viaRetry,
             inGate |-> r.viaGate,
             queued |-> r.path \in Range(r.queue0)]}
    ELSE requests

(***************************************************************************)
(* Callers.                                                                *)
(***************************************************************************)
NoRet ==
    [kind |-> "none", uploaded |-> 0, failed |-> 0, downloaded |-> 0,
     skipped |-> 0]

\* what photoExists returns: null, or the path of a file
NoPath == [null |-> TRUE, path |-> <<>>]
Found(path) == [null |-> FALSE, path |-> path]

\* the error a function has thrown to its caller: the status its message
\* names (0 when it names none), and the status of the last response the
\* transport gave before it (0 when the last call threw)
NoError == [kind |-> "none", status |-> 0, last |-> 0]

\* what a crash of the application has interrupted: the items of the
\* running loop that were not finished, and the listing the run worked on
NoCrash == [n |-> 0, uploads |-> {}, downloads |-> {}, remote |-> <<>>]

\* the summary the settings screen shows after a sync
NoReport ==
    [kind |-> "none", downloaded |-> 0, uploaded |-> 0, skipped |-> 0,
     failed |-> 0]

IdleProc ==
    [pc |-> "idle", op |-> "none", viaRetry |-> FALSE, viaGate |-> FALSE,
     attempt |-> 0, attempts |-> 0, wakeAt |-> 0, calls |-> 0,
     sleeps |-> <<>>, outs |-> <<>>, ticket |-> 0, result |-> NoOutcome,
     nCalls |-> 0,
     fn |-> "none", legacy |-> FALSE, items |-> <<>>, i |-> 0,
     path |-> <<>>, localPath |-> <<>>, fileName |-> <<>>,
     inflight |-> NoFile, next |-> <<>>,
     uploaded |-> 0, failed |-> 0, downloaded |-> 0, skipped |-> 0,
     queue0 |-> <<>>, attempted |-> 0, ret |-> NoRet,
     players |-> <<>>, remote |-> <<>>, listed |-> FALSE, mode |-> "none",
     candidates |-> 0, stage |-> 0,
     sync |-> "none", syncs |-> 0, names |-> <<>>, names0 |-> <<>>,
     kind0 |-> "none", dl |-> NoRet, considered |-> 0, report |-> NoReport,
     error |-> NoError, crashed |-> NoCrash, found |-> NoPath]

OffProc == [IdleProc EXCEPT !.pc = "off"]

\* a caller runs withRetry(task, {attempts: n, shouldRetry}) on a bare task
DriverWithRetry(p) ==
    /\ proc[p].pc = "idle"
    /\ \E n \in 1..MaxAttempts :
         LET r0 == [proc[p] EXCEPT !.op = "task", !.viaRetry = TRUE,
                                   !.viaGate = FALSE, !.attempt = 1,
                                   !.attempts = n, !.nCalls = @ + 1]
         IN  proc' = [proc EXCEPT ![p] =
                          Invoke(r0, rateLimiter, lastRequestTime, Now, 0)]
    /\ UNCHANGED <<gateVars, storeVars, histVars>>

\* a caller runs runWithRateLimit(task) on a bare task
DriverSchedule(p) ==
    /\ proc[p].pc \in {"idle", "returned", "threw"}
    /\ proc[p].nCalls < MaxCalls
    /\ LET r0 == [proc[p] EXCEPT !.op = "job", !.viaRetry = FALSE,
                                 !.viaGate = TRUE, !.nCalls = @ + 1,
                                 !.outs = <<>>, !.result = NoOutcome]
           r1 == Invoke(r0, rateLimiter, lastRequestTime, Now, tickets + 1)
       IN  /\ proc' = [proc EXCEPT ![p] = r1]
           /\ rateLimiter' = Chained(p, r0, rateLimiter)
           /\ gateStarts' = NoteStart(r1, 0)
    /\ tickets' = tickets + 1
    /\ UNCHANGED <<lastRequestTime, storeVars, histVars>>

\* a caller that has set up the frame of a transport call makes the call
Call(p) ==
    /\ proc[p].pc = "calling"
    /\ LET r1 == Invoke(proc[p], rateLimiter, lastRequestTime, Now,
                        proc[p].ticket)
       IN  /\ proc' = [proc EXCEPT ![p] = Launched(r1)]
           /\ rateLimiter' = Chained(p, proc[p], rateLimiter)
           /\ gateStarts' = NoteStart(r1, 0)
           /\ requests' = NoteRequest(r1)
    /\ UNCHANGED <<lastRequestTime, tickets, storeVars, uploadedOk, dequeued>>

\* the chained callback of a queued caller runs: its predecessor has settled
GateBegin(p) ==
    /\ proc[p].pc = "gate_queued"
    /\ Head(rateLimiter.waiting) = p
    /\ LET r1 == IF rateLimiter.rejected = ""
                 THEN Admit(proc[p], lastRequestTime, Now)
                 ELSE [proc[p] EXCEPT !.pc = "gate_rejected"]
       IN  /\ proc' = [proc EXCEPT ![p] = Launched(r1)]
           /\ gateStarts' = NoteStart(r1, 0)
           /\ requests' = NoteRequest(r1)
    /\ UNCHANGED <<rateLimiter, lastRequestTime, tickets, storeVars,
                   uploadedOk, dequeued>>

\* sleep(wait) of the gate is over: task() is called
GateWake(p) ==
    /\ proc[p].pc = "gate_sleep"
    /\ LET d == Max(proc[p].wakeAt - Now, 0)
           r1 == [proc[p] EXCEPT !.pc = "task_running", !.calls = @ + 1,
                                 !.wakeAt = 0]
       IN  /\ proc' = Elapsed(p, Launched(r1), d)
           /\ lastRequestTime' = Past(lastRequestTime - d)
           /\ gateStarts' = NoteStart(r1, d)
           /\ requests' = NoteRequest(r1)
    /\ UNCHANGED <<rateLimiter, tickets, storeVars, uploadedOk, dequeued>>

\* sleep(delay) of withRetry is over: the next attempt calls task()
RetryWake(p) ==
    /\ proc[p].pc = "retry_backoff"
    /\ LET d == Max(proc[p].wakeAt - Now, 0)
           r0 == [proc[p] EXCEPT !.attempt = @ + 1, !.wakeAt = 0]
           r1 == Invoke(r0, rateLimiter, Past(lastRequestTime - d), Now,
                        r0.ticket)
       IN  /\ proc' = Elapsed(p, Launched(r1), d)
           /\ lastRequestTime' = Past(lastRequestTime - d)
           /\ rateLimiter' = Chained(p, r0, rateLimiter)
           /\ gateStarts' = NoteStart(r1, d)
           /\ requests' = NoteRequest(r1)
    /\ UNCHANGED <<tickets, storeVars, uploadedOk, dequeued>>

\* the bare task of a direct caller settles
DriverSettle(p) ==
    /\ proc[p].op \in {"task", "job"}
    /\ proc[p].pc \in {"task_running", "gate_rejected"}
    /\ \E out \in Outcomes(p, proc[p]) :
         /\ proc' = [proc EXCEPT ![p] = Settle(proc[p], out, Now)]
         /\ rateLimiter' = Released(proc[p], rateLimiter, out)
         /\ lastRequestTime' = Stamp(proc[p], lastRequestTime, out, Now)
    /\ UNCHANGED <<tickets, gateStarts, storeVars, histVars>>

\* time passes
Tick ==
    /\ proc' = [q \in DOMAIN proc |-> Slept(proc[q], TickMs)]
    /\ lastRequestTime' = Past(lastRequestTime - TickMs)
    /\ gateStarts' = [gateStarts EXCEPT !.at = Past(@ - TickMs)]
    /\ UNCHANGED <<rateLimiter, tickets, storeVars, histVars>>

(***************************************************************************)
(* The local photo store.                                                  *)
(***************************************************************************)
\* a function returns to its caller
Finish(r) ==
    [r EXCEPT !.pc = "done", !.op = "none", !.viaRetry = FALSE,
              !.viaGate = FALSE, !.attempt = 0, !.attempts = 0,
              !.wakeAt = 0, !.calls = 0, !.sleeps = <<>>, !.outs = <<>>,
              !.result = NoOutcome, !.path = <<>>, !.localPath = <<>>,
              !.fileName = <<>>, !.inflight = NoFile, !.next = <<>>,
              !.ret = [kind |-> "returned", uploaded |-> r.uploaded,
                       failed |-> r.failed, downloaded |-> r.downloaded,
                       skipped |-> r.skipped]]

\* savePhoto(playerName, sourceUri) up to `await addPendingUpload(dest)`
SaveCopy(p) ==
    /\ p = "cam"
    /\ proc[p].pc \in {"idle", "done"}
    /\ captures < MaxSaves
    /\ \E playerName \in PlayerNames :
         LET baseFile == replace(composeImageFileName(playerName), PNG, JPG)
             dest == PHOTO_DIR \o baseFile
         IN  /\ photoDir' = WriteFile(photoDir, baseFile, Capture(captures + 1))
             /\ proc' = [proc EXCEPT ![p] =
                    [@ EXCEPT !.pc = "add_get", !.fn = "savePhoto",
                              !.path = dest, !.ret = NoRet]]
    /\ captures' = captures + 1
    /\ UNCHANGED <<gateVars, config, network, pendingUploads, bucket, histVars>>

\* a push that does not look for the path in the queue
PushedAlways(pending, filePath) == Append(pending, filePath)

\* if (!pending.includes(filePath)) pending.push(filePath)
Pushed(pending, filePath) ==
    IF filePath \in Range(pending) THEN pending
    ELSE Append(pending, filePath)

\* addPendingUpload: getPendingUploads() has answered; the queue is written
\* only when the path has been pushed
AddRead(p) ==
    /\ proc[p].pc = "add_get"
    /\ proc' = [proc EXCEPT ![p] =
           IF Pushed(pendingUploads, proc[p].path) = pendingUploads
           THEN Finish(proc[p])
           ELSE [@ EXCEPT !.pc = "add_set",
                          !.next = Pushed(pendingUploads, proc[p].path)]]
    /\ UNCHANGED <<gateVars, storeVars, histVars>>

\* addPendingUpload: AsyncStorage.setItem is carried out
AddWrite(p) ==
    /\ proc[p].pc = "add_set"
    /\ pendingUploads' = proc[p].next
    /\ dequeued' = dequeued \cup (Range(pendingUploads) \ Range(proc[p].next))
    /\ proc' = [proc EXCEPT ![p] = Finish(proc[p])]
    /\ UNCHANGED <<gateVars, config, network, photoDir, bucket, captures, requests,
                   uploadedOk>>

\* photoExists(playerName) up to the first `await FileSystem.getInfoAsync`
ExistsStart(p) ==
    /\ proc[p].pc \in {"idle", "done"}
    /\ proc[p].nCalls < MaxLookups
    /\ \E playerName \in PlayerNames :
         LET baseFile == replace(composeImageFileName(playerName), PNG, JPG)
             targetJpg == PHOTO_DIR \o baseFile
             targetPng == PHOTO_DIR \o composeImageFileName(playerName)
         IN  proc' = [proc EXCEPT ![p] =
                 [@ EXCEPT !.pc = "exists_jpg", !.fn = "photoExists",
                           !.players = <<playerName>>, !.path = targetJpg,
                           !.localPath = targetPng, !.found = NoPath,
                           !.nCalls = @ + 1]]
    /\ UNCHANGED <<gateVars, storeVars, histVars>>

\* a lookup that never finds the .jpg file
ExistsJpgMissed(p) ==
    /\ proc[p].pc = "exists_jpg"
    /\ proc' = [proc EXCEPT ![p] = [@ EXCEPT !.pc = "exists_png"]]
    /\ UNCHANGED <<gateVars, storeVars, histVars>>

\* getInfoAsync(targetJpg) has answered: if (info.exists) return targetJpg
ExistsJpg(p) ==
    /\ proc[p].pc = "exists_jpg"
    /\ proc' = [proc EXCEPT ![p] =
           IF ReadFile(proc[p].path) # NoFile
           THEN [@ EXCEPT !.pc = "done", !.found = Found(proc[p].path)]
           ELSE [@ EXCEPT !.pc = "exists_png"]]
    /\ UNCHANGED <<gateVars, storeVars, histVars>>

\* getInfoAsync(targetPng) has answered: if (info.exists) return targetPng;
\* return null
ExistsPng(p) ==
    /\ proc[p].pc = "exists_png"
    /\ proc' = [proc EXCEPT ![p] =
           IF ReadFile(proc[p].localPath) # NoFile
           THEN [@ EXCEPT !.pc = "done", !.found = Found(proc[p].localPath)]
           ELSE [@ EXCEPT !.pc = "done", !.found = NoPath]]
    /\ UNCHANGED <<gateVars, storeVars, histVars>>

\* listLocalPhotos(): the directory entries in the order the platform
\* reports them
Listings(dir) ==
    {order \in [1..Cardinality(DOMAIN dir) -> DOMAIN dir] :
        \A i, j \in 1..Cardinality(DOMAIN dir) : i # j => order[i] # order[j]}

(***************************************************************************)
(* The upload path.                                                        *)
(***************************************************************************)
getConfigOk == config.url /\ config.anonKey

\* a catch block that counts the failure and leaves the loop
ItemCatchBreak(r) ==
    [r EXCEPT !.failed = IF r.fn = "syncOnce" THEN @ ELSE @ + 1,
              !.i = Len(r.items) + 1]

\* catch (err) { failed += 1 } of the upload loops, and the loop's i += 1
\* (syncOnce keeps no counter)
ItemCatch(r) ==
    [r EXCEPT !.failed = IF r.fn = "syncOnce" THEN @ ELSE @ + 1,
              !.i = @ + 1]

\* uploadFileFromPath(localPath, fileName) up to `await withRetry(...)`;
\* syncOnce calls it through splitPath and uploadSinglePhoto
BeginUpload(r) ==
    LET path == r.items[r.i]
        wrap == IF r.legacy THEN TransportBare ELSE TransportWrap
        sp == splitPath(path)
    IN  [r EXCEPT !.pc = "calling", !.op = "upload", !.path = path,
                  !.localPath = IF r.fn = "syncOnce"
                                THEN joinPath(sp.dir, sp.name) ELSE path,
                  !.fileName = IF r.fn = "syncOnce"
                               THEN sp.name ELSE basename(path),
                  !.viaRetry = wrap.retry, !.viaGate = wrap.gate,
                  !.attempt = 1, !.attempts = RETRY_ATTEMPTS, !.calls = 0,
                  !.sleeps = <<>>, !.outs = <<>>, !.result = NoOutcome]

\* the loop of uploadAllPhotos / syncOnce from item r.i on, up to its next
\* await: getConfig() throws inside the try block when a credential is unset
RECURSIVE UploadFrom(_)
UploadFrom(r) ==
    IF r.i > Len(r.items)
    THEN Finish(r)
    ELSE LET t == [r EXCEPT !.attempted = @ + 1]
         IN  IF getConfigOk THEN BeginUpload(t) ELSE UploadFrom(ItemCatch(t))

\* the locals of a batch function at its start
Entered(r, fn, legacy, items) ==
    [r EXCEPT !.fn = fn, !.legacy = legacy, !.items = items,
              !.queue0 = pendingUploads, !.i = 1, !.uploaded = 0,
              !.failed = 0, !.downloaded = 0, !.skipped = 0,
              !.attempted = 0, !.ret = NoRet, !.nCalls = @ + 1,
              !.players = <<>>, !.remote = <<>>, !.listed = FALSE,
              !.mode = "none", !.candidates = 0, !.stage = 0,
              !.error = NoError]

\* uploadAllPhotos(): `await getPendingUploads()` has answered
UploadAllStart(p) ==
    /\ p \in {"ui", "settings"}
    /\ proc[p].pc \in {"idle", "done"}
    /\ proc[p].nCalls < MaxRuns
    /\ proc' = [proc EXCEPT ![p] =
           UploadFrom(Entered(@, "uploadAllPhotos", FALSE, pendingUploads))]
    /\ UNCHANGED <<gateVars, storeVars, histVars>>

\* syncOnce() of useBackgroundSync: `await getPendingUploads()` has answered
SyncOnceStart(p) ==
    /\ p = "bg"
    /\ proc[p].pc \in {"idle", "done"}
    /\ proc[p].nCalls < MaxRuns
    /\ proc' = [proc EXCEPT ![p] =
           UploadFrom(Entered(@, "syncOnce", FALSE, pendingUploads))]
    /\ UNCHANGED <<gateVars, storeVars, histVars>>

\* uploadAllPhotos() of services/supabaseService.js:
\* `await listLocalPhotos()` has answered
LegacyUploadAllStart(p) ==
    /\ p \in {"ui", "settings"}
    /\ proc[p].pc \in {"idle", "done"}
    /\ proc[p].nCalls < MaxRuns
    /\ \E order \in Listings(photoDir) :
         proc' = [proc EXCEPT ![p] =
             UploadFrom(Entered(@, "uploadAllPhotos", TRUE,
                 [i \in 1..Len(order) |-> PHOTO_DIR \o order[i]]))]
    /\ UNCHANGED <<gateVars, storeVars, histVars>>

\* FileSystem.uploadAsync settles; uploadFileFromPath returns or throws and
\* the loop goes on to `await markUploaded(path)` or to its catch block
UploadSettle(p) ==
    /\ proc[p].op = "upload"
    /\ proc[p].pc \in {"task_running", "gate_rejected"}
    /\ \E out \in Outcomes(p, proc[p]) :
         LET r == proc[p]
             ok == ~out.threw /\ out.status >= 200 /\ out.status < 300
             s == Settle(r, out, Now)
         IN  /\ proc' = [proc EXCEPT ![p] =
                    IF s.pc = "retry_backoff" THEN s
                    ELSE IF s.pc = "returned" /\ ok
                    THEN [s EXCEPT !.pc = "mark_get"]
                    ELSE UploadFrom(ItemCatch(s))]
             /\ rateLimiter' = Released(r, rateLimiter, out)
             /\ lastRequestTime' = Stamp(r, lastRequestTime, out, Now)
             /\ bucket' = IF ok THEN WriteFile(bucket, r.fileName, r.inflight)
                          ELSE bucket
             /\ uploadedOk' = IF ok THEN uploadedOk \cup {r.path}
                              ELSE uploadedOk
    /\ UNCHANGED <<tickets, gateStarts, config, network, photoDir,
                   pendingUploads, captures, requests, dequeued>>

\* markUploaded(filePath): getPendingUploads() has answered
MarkRead(p) ==
    /\ proc[p].pc = "mark_get"
    /\ proc' = [proc EXCEPT ![p] =
           [@ EXCEPT !.pc = "mark_set",
                     !.next = SelectSeq(pendingUploads,
                                        LAMBDA q : q # proc[p].path)]]
    /\ UNCHANGED <<gateVars, storeVars, histVars>>

\* markUploaded(filePath): AsyncStorage.setItem is carried out; the loop
\* counts the upload and goes on
MarkWrite(p) ==
    /\ proc[p].pc = "mark_set"
    /\ pendingUploads' = proc[p].next
    /\ dequeued' = dequeued \cup (Range(pendingUploads) \ Range(proc[p].next))
    /\ proc' = [proc EXCEPT ![p] =
           UploadFrom([@ EXCEPT !.uploaded = IF proc[p].fn = "syncOnce"
                                             THEN @ ELSE @ + 1,
                                !.i = @ + 1, !.next = <<>>])]
    /\ UNCHANGED <<gateVars, config, network, photoDir, bucket, captures, requests,
                   uploadedOk>>

(***************************************************************************)
(* The download path.                                                      *)
(***************************************************************************)
\* the characters of file names, in the order of their codes
Alphabet ==
    <<" ", ",", ".", "/", "A", "B", "C", "a", "b", "c", "d", "e", "g", "j",
      "n", "p">>

CharCode(c) == CHOOSE i \in 1..Len(Alphabet) : Alphabet[i] = c

\* s sorts before t
NameBefore(s, t) ==
    \E k \in 1..(Min(Len(s), Len(t)) + 1) :
        /\ \A i \in 1..(k - 1) : s[i] = t[i]
        /\ IF k > Len(s) THEN k <= Len(t)
           ELSE k <= Len(t) /\ CharCode(s[k]) < CharCode(t[k])

\* the listing the server answers with: sortBy {column: 'name', order: 'asc'}
SortedNames(names) ==
    CHOOSE order \in [1..Cardinality(names) -> names] :
        \A i, j \in 1..Cardinality(names) :
            i < j => NameBefore(order[i], order[j])

\* [...new Set(seq)]: the first occurrence of every element, in order
Distinct(seq) ==
    LET first == {i \in 1..Len(seq) : \A j \in 1..(i - 1) : seq[j] # seq[i]}
    IN  [k \in 1..Cardinality(first) |->
            seq[CHOOSE i \in first : Cardinality({j \in first : j <= i}) = k]]

\* the `normalized` field of a listed object
normalized(name) == toLowerCase(basename(name))

\* a membership test that never recognizes a local file
alreadyLocalNever(localNames, name) == FALSE

\* localNames.has(f.normalized): the names are compared with their extension
alreadyLocal(localNames, name) == name \in localNames

\* isValidImageFile(filePath) of services/supabaseService.js
isValidImageFileLegacy(file) ==
    IF file = NoFile THEN FALSE
    ELSE IF file.size < 1024 THEN FALSE
    ELSE IF file.size > 200 * 1024 THEN TRUE
    ELSE IF ~file.readable \/ ~file.utf8 THEN TRUE
    ELSE ~file.marker

\* isValidImageFile(filePath): the answer for the file at that path
isValidImageFile(file) ==
    IF file = NoFile THEN FALSE
    ELSE IF file.size < 1024 THEN FALSE
    ELSE IF ~file.readable THEN file.size > 1024
    ELSE IF file.magic \notin {"png", "jpg"} THEN FALSE
    ELSE IF file.size <= 512 * 1024 /\ ~file.utf8 THEN file.size > 1024
    ELSE IF file.size <= 512 * 1024 /\ file.marker THEN FALSE
    ELSE TRUE

\* a failure that is turned into an empty result
ReturnEmpty(r) == Finish(r)

\* a function throws to its caller
Fail(r) == [Finish(r) EXCEPT !.ret.kind = "threw"]

\* a downloadFile that asks the private URL whatever the stage
BeginPrivate(r, n) ==
    [r EXCEPT !.pc = "calling", !.op = "download", !.stage = 3,
              !.viaRetry = TRUE, !.viaGate = TRUE,
              !.attempt = 1, !.attempts = RETRY_ATTEMPTS, !.calls = 0,
              !.sleeps = <<>>, !.outs = <<>>, !.result = NoOutcome]

\* tryDownload(dlUrl, label, withHeaders) of stage n up to
\* `await withRetry(...)`: 1 public-no-auth, 2 public-with-auth,
\* 3 private-with-auth
BeginStage(r, n) ==
    [r EXCEPT !.pc = "calling", !.op = "download", !.stage = n,
              !.viaRetry = IF r.legacy THEN TransportBare.retry
                           ELSE TransportWrap.retry,
              !.viaGate = IF r.legacy THEN TransportBare.gate
                          ELSE TransportWrap.gate,
              !.attempt = 1, !.attempts = RETRY_ATTEMPTS, !.calls = 0,
              !.sleeps = <<>>, !.outs = <<>>, !.result = NoOutcome]

\* downloadFile(fileName) up to the first tryDownload
BeginDownload(r) ==
    BeginStage([r EXCEPT !.fileName = r.items[r.i],
                         !.path = PHOTO_DIR \o r.items[r.i],
                         !.localPath = PHOTO_DIR \o r.items[r.i]], 1)

\* the download loops of downloadMissingPhotos from item r.i on
DownloadFrom(r) ==
    IF r.i > Len(r.items)
    THEN Finish(r)
    ELSE BeginDownload([r EXCEPT !.attempted = @ + 1])

\* downloadFile after the stage r.stage has not produced a valid file; the
\* last response had `status`
AfterStage(r, status) ==
    IF r.stage = 1 /\ status \in {400, 401, 403, 404} THEN BeginStage(r, 2)
    ELSE IF r.stage < 3 THEN BeginStage(r, 3)
    ELSE DownloadFrom(ItemCatch(r))

\* the player lists the screens pass: null, or the names of the tournament
PlayerLists == {<<>>, <<<<"a">>>>, <<<<"a">>, <<"B">>>>}

\* the player lists a download can be started with
Startable(lists) ==
    {l \in lists : 3 * Len(l) <= MaxDirect \/ DOMAIN bucket # {}}

\* the frame of downloadMissingPhotos(onProgress, playerNames) at the `await
\* withRetry(...)` of listRemotePhotos, or after getConfig() has thrown
DownloadCalled(r, playerNames) ==
    LET r0 == [Entered(r, "downloadMissingPhotos", FALSE, <<>>)
                  EXCEPT !.players = playerNames]
    IN  IF ~getConfigOk THEN Fail(r0)
        ELSE [r0 EXCEPT !.pc = "calling", !.op = "list",
                        !.viaRetry = TransportWrap.retry,
                        !.viaGate = TransportWrap.gate,
                        !.attempt = 1, !.attempts = RETRY_ATTEMPTS,
                        !.calls = 0, !.sleeps = <<>>, !.outs = <<>>,
                        !.result = NoOutcome]

\* downloadMissingPhotos(onProgress, playerNames) is called on its own
DownloadMissingStart(p) ==
    /\ p = "settings"
    /\ proc[p].pc \in {"idle", "done"}
    /\ proc[p].nCalls < MaxRuns
    /\ \E playerNames \in Startable(PlayerLists) :
         proc' = [proc EXCEPT ![p] = DownloadCalled(@, playerNames)]
    /\ UNCHANGED <<gateVars, storeVars, histVars>>

\* the error listRemotePhotos throws once the frame has settled as s on the
\* outcome out: lastError of withRetry (the error of the transport, or
\* `Retryable response for list photos`), or `Supabase list failed
\* (${response.status}): ${message}` for a response that is not ok
ListError(s, out) ==
    IF s.pc = "threw"
    THEN [kind |-> IF s.result.by = "withRetry" THEN "retryable_response"
                   ELSE "thrown",
          status |-> 0,
          last |-> IF out.threw THEN 0 ELSE out.status]
    ELSE [kind |-> "list_failed", status |-> out.status,
          last |-> out.status]

\* the fetch of the listing settles; listRemotePhotos returns the objects
\* or throws, and downloadMissingPhotos goes on to `await listLocalPhotos()`
ListSettle(p) ==
    /\ proc[p].op = "list"
    /\ proc[p].pc \in {"task_running", "gate_rejected"}
    /\ \E out \in Outcomes(p, proc[p]) :
         LET r == proc[p]
             s == Settle(r, out, Now)
             ok == ~out.threw /\ out.status >= 200 /\ out.status < 300
         IN  /\ proc' = [proc EXCEPT ![p] =
                    IF s.pc = "retry_backoff" THEN s
                    ELSE IF s.pc = "returned" /\ ok
                    THEN [s EXCEPT !.pc = "dm_local", !.op = "none",
                                   !.listed = TRUE,
                                   !.remote = IF out.body = ListingBody
                                              THEN SortedNames(DOMAIN bucket)
                                              ELSE <<>>]
                    ELSE [Fail(s) EXCEPT !.error = ListError(s, out)]]
             /\ rateLimiter' = Released(r, rateLimiter, out)
             /\ lastRequestTime' = Stamp(r, lastRequestTime, out, Now)
    /\ UNCHANGED <<tickets, gateStarts, storeVars, requests,
                   uploadedOk, dequeued>>

\* a filter that lets every listed object through
FilterNothing(remoteFiles, expected) == remoteFiles

\* remoteFiles.filter((f) => expected.has(f.normalized))
FilterExpected(remoteFiles, expected) ==
    SelectSeq(remoteFiles, LAMBDA f : normalized(f) \in expected)

\* a filter by player names that keeps an empty result
NoFallBack(filtered, remoteFiles) == filtered

\* if (candidates.length === 0) candidates = remoteFiles
FallBackToAll(filtered, remoteFiles) ==
    IF filtered = <<>> THEN remoteFiles ELSE filtered

\* listLocalPhotos() has answered: the candidates are filtered and the
\* first download begins; every local of the function is computed once
LocalListed(p) ==
    /\ proc[p].pc = "dm_local"
    /\ LET r == proc[p]
           n == Len(r.players)
           localNames == {toLowerCase(basename(PHOTO_DIR \o f)) :
                             f \in DOMAIN photoDir}
       IN  \E expectedPng \in {[i \in 1..n |->
                                   composeImageFileName(r.players[i])]} :
           \E expectedJpg \in {[i \in 1..n |->
                                   replace(expectedPng[i], PNG, JPG)]} :
           \E expectedJpeg \in {[i \in 1..n |->
                                    replace(expectedPng[i], PNG, JPEG)]} :
           \E all \in {expectedPng \o expectedJpg \o expectedJpeg} :
           \E lowered \in {[i \in 1..Len(all) |-> toLowerCase(all[i])]} :
           \E expectedList \in {Distinct(lowered)} :
           \E filtered \in {FilterExpected(r.remote, Range(expectedList))} :
           \E candidates \in {IF n > 0 THEN FallBackToAll(filtered, r.remote)
                                ELSE r.remote} :
           \E toDownload \in {SelectSeq(candidates,
                   LAMBDA f : ~alreadyLocal(localNames, normalized(f)))} :
           \E wanted \in {SelectSeq(expectedList,
                   LAMBDA f : ~alreadyLocal(localNames, f))} :
           \E direct \in {n > 0 /\ candidates = <<>> /\ r.remote = <<>>} :
           \E begun \in {IF direct
                   THEN [r EXCEPT !.mode = "direct", !.items = wanted,
                                  !.candidates = Len(expectedList),
                                  !.skipped = 0, !.i = 1]
                   ELSE [r EXCEPT !.mode = "listing", !.items = toDownload,
                                  !.candidates = Len(candidates),
                                  !.skipped = Len(candidates) - Len(toDownload),
                                  !.i = 1]} :
             proc' = [proc EXCEPT ![p] = DownloadFrom(begun)]
    /\ UNCHANGED <<gateVars, storeVars, histVars>>

\* FileSystem.downloadAsync settles: the body of a response is written to
\* targetPath whatever its status
DownloadSettle(p) ==
    /\ proc[p].op = "download"
    /\ proc[p].pc \in {"task_running", "gate_rejected"}
    /\ \E out \in Outcomes(p, proc[p]) :
         LET r == proc[p]
             s == Settle(r, out, Now)
             ok == ~out.threw /\ out.status >= 200 /\ out.status < 300
         IN  /\ proc' = [proc EXCEPT ![p] =
                    IF s.pc = "retry_backoff" THEN s
                    ELSE IF s.pc = "threw" THEN DownloadFrom(ItemCatch(s))
                    ELSE IF ok THEN [s EXCEPT !.pc = "df_validate"]
                    ELSE AfterStage(s, out.status)]
             /\ rateLimiter' = Released(r, rateLimiter, out)
             /\ lastRequestTime' = Stamp(r, lastRequestTime, out, Now)
             /\ photoDir' = IF out.threw THEN photoDir
                            ELSE WriteFile(photoDir, r.fileName, out.body)
    /\ UNCHANGED <<tickets, gateStarts, config, network, pendingUploads, bucket,
                   captures, requests, uploadedOk, dequeued>>

\* isValidImageFile(targetPath) has answered
Validate(p) ==
    /\ proc[p].pc = "df_validate"
    /\ proc' = [proc EXCEPT ![p] =
           IF (IF proc[p].legacy
               THEN isValidImageFileLegacy(ReadFile(proc[p].localPath))
               ELSE isValidImageFile(ReadFile(proc[p].localPath)))
           THEN DownloadFrom([@ EXCEPT !.downloaded = @ + 1, !.i = @ + 1])
           ELSE [@ EXCEPT !.pc = "df_delete"]]
    /\ UNCHANGED <<gateVars, storeVars, histVars>>

\* FileSystem.deleteAsync(targetPath, {idempotent: true}) is carried out:
\* the next stage begins, or downloadFile throws after the last one
Delete(p) ==
    /\ proc[p].pc = "df_delete"
    /\ photoDir' = [f \in DOMAIN photoDir \ {proc[p].fileName} |-> photoDir[f]]
    /\ proc' = [proc EXCEPT ![p] = AfterStage(@, proc[p].result.status)]
    /\ UNCHANGED <<gateVars, config, network, pendingUploads, bucket, captures,
                   histVars>>

(***************************************************************************)
(* The sync of the settings screen.                                        *)
(***************************************************************************)
\* hasSupabaseConfig(), read when the screen renders
hasSupabaseConfig == config.url /\ config.anonKey

\* a sync that calls uploadAllPhotos before downloadMissingPhotos
UploadCalledFirst(r, playerNames) ==
    UploadFrom(Entered([r EXCEPT !.sync = "download"], "uploadAllPhotos",
                       FALSE, pendingUploads))

\* handleBidirectionalSync(): the first engine call of a sync, `await
\* downloadMissingPhotos(...)`
SyncBegun(r, playerNames) ==
    DownloadCalled([r EXCEPT !.sync = "download"], playerNames)

\* a handler that shows its alert and leaves the syncing flag set
ReportedStillSyncing(r, report) == [r EXCEPT !.report = report]

\* the end of handleBidirectionalSync(): the alert is shown ('Sync Complete'
\* or 'Sync Error') and `finally` clears the syncing flag
Reported(r, report) == [r EXCEPT !.sync = "none", !.report = report]

\* the syncs that can be started: one more after a crash when transport
\* calls can fail on their own
SyncBudget ==
    IF network = "reliable" THEN MaxSyncs
    ELSE MaxFaultySyncs + proc["settings"].crashed.n

\* handleBidirectionalSync() is called: without configuration an alert is
\* shown and nothing else is done; otherwise the player names are prepared
\* (getPlayers may fail or no tournament may be selected: no name) and the
\* download phase is entered
SyncStart(p) ==
    /\ p = "settings"
    /\ proc[p].pc \in {"idle", "done"}
    /\ proc[p].sync = "none"
    /\ proc[p].syncs < SyncBudget
    /\ LET r0 == [proc[p] EXCEPT !.syncs = @ + 1, !.names0 = proc[p].names,
                                 !.kind0 = proc[p].report.kind,
                                 !.dl = NoRet, !.considered = 0,
                                 !.report = NoReport]
       IN  IF ~hasSupabaseConfig
           THEN proc' = [proc EXCEPT ![p] =
                    [r0 EXCEPT !.report.kind = "not_configured"]]
           ELSE \E currentPlayerNames \in
                       {l \in Startable(PlayerLists) :
                           proc[p].crashed.n > 0 => l = proc[p].names} :
                  proc' = [proc EXCEPT ![p] =
                      SyncBegun([r0 EXCEPT !.names = currentPlayerNames],
                                currentPlayerNames)]
    /\ UNCHANGED <<gateVars, storeVars, histVars>>

\* `await downloadMissingPhotos(...)` settles: a throw goes to the catch
\* block of the handler, which shows the error; a result is kept and
\* `await uploadAllPhotos(...)` is entered
SyncAfterDownload(p) ==
    /\ proc[p].pc = "done"
    /\ proc[p].sync = "download"
    /\ LET r == proc[p]
       IN  proc' = [proc EXCEPT ![p] =
               IF r.ret.kind = "threw"
               THEN Reported(r, [NoReport EXCEPT !.kind = "error"])
               ELSE UploadFrom(Entered(
                        [r EXCEPT !.sync = "upload", !.dl = r.ret,
                                  !.considered = r.candidates],
                        "uploadAllPhotos", FALSE, pendingUploads))]
    /\ UNCHANGED <<gateVars, storeVars, histVars>>

\* `await uploadAllPhotos(...)` settles: the summary is shown
SyncAfterUpload(p) ==
    /\ proc[p].pc = "done"
    /\ proc[p].sync = "upload"
    /\ LET r == proc[p]
       IN  proc' = [proc EXCEPT ![p] =
               IF r.ret.kind = "threw"
               THEN Reported(r, [NoReport EXCEPT !.kind = "error"])
               ELSE Reported(r, [kind |-> "complete",
                                 downloaded |-> r.dl.downloaded,
                                 uploaded |-> r.ret.uploaded,
                                 skipped |-> r.dl.skipped,
                                 failed |-> r.ret.failed + r.dl.failed])]
    /\ UNCHANGED <<gateVars, storeVars, histVars>>

\* the items of the loop of the frame r that are not finished: the one in
\* progress and those after it
Unfinished(r, fn) ==
    IF r.fn = fn THEN {r.items[k] : k \in r.i..Len(r.items)} ELSE {}

\* the application is killed during a sync and started again: what is in
\* memory (the frame of the handler, the gate's chain and lastRequestTime)
\* is lost, the photo directory, the stored queue and the bucket stay; the
\* selected tournament gives the same player names
Crash(p) ==
    /\ p = "settings"
    /\ proc[p].sync # "none"
    /\ proc[p].crashed.n < MaxCrashes
    /\ proc' = [proc EXCEPT ![p] =
           [IdleProc EXCEPT
               !.names = proc[p].names, !.syncs = proc[p].syncs,
               !.crashed = [n |-> proc[p].crashed.n + 1,
                            uploads |-> Unfinished(proc[p], "uploadAllPhotos"),
                            downloads |->
                                Unfinished(proc[p], "downloadMissingPhotos"),
                            remote |-> proc[p].remote]]]
    /\ rateLimiter' = [waiting |-> <<>>, rejected |-> ""]
    /\ lastRequestTime' = Past(0)
    /\ tickets' = 0
    /\ gateStarts' = [n |-> 0, at |-> Past(0), gap |-> 0]
    /\ UNCHANGED <<storeVars, histVars>>

(***************************************************************************)
(* Specifications.                                                         *)
(***************************************************************************)
InitGlobals ==
    /\ rateLimiter = [waiting |-> <<>>, rejected |-> ""]
    /\ lastRequestTime = Past(0)
    /\ tickets = 0
    /\ gateStarts = [n |-> 0, at |-> Past(0), gap |-> 0]
    /\ captures = 0
    /\ requests = {}
    /\ uploadedOk = {}
    /\ dequeued = {}

\* a device that holds no photo and is configured
InitEmptyStore ==
    /\ config = [url |-> TRUE, anonKey |-> TRUE]
    /\ network = "unreliable"
    /\ photoDir = <<>>
    /\ pendingUploads = <<>>
    /\ bucket = <<>>

\* withRetry alone: one caller, a bare task
InitRetry ==
    /\ InitGlobals
    /\ InitEmptyStore
    /\ proc = [p \in Procs |-> IF p = "t1" THEN IdleProc ELSE OffProc]

NextRetry ==
    \E p \in Drivers : DriverWithRetry(p) \/ RetryWake(p) \/ DriverSettle(p)

SpecRetry == InitRetry /\ [][NextRetry]_vars

\* runWithRateLimit alone: concurrent callers, bare tasks
InitGate ==
    /\ InitGlobals
    /\ InitEmptyStore
    /\ proc = [p \in Procs |-> IF p \in Drivers THEN IdleProc ELSE OffProc]

NextGate ==
    \/ \E p \in Drivers :
         DriverSchedule(p) \/ GateBegin(p) \/ GateWake(p) \/ DriverSettle(p)
    \/ Tick

SpecGate == InitGate /\ [][NextGate]_vars

\* the event loop runs every callback that is ready, every timer fires and
\* every task settles
FairSpecGate ==
    /\ SpecGate
    /\ \A p \in Drivers :
         /\ WF_vars(GateBegin(p))
         /\ WF_vars(GateWake(p))
         /\ WF_vars(DriverSettle(p))

\* the photos the camera can have saved, the photos a download can have
\* stored
CapturedNames ==
    {replace(composeImageFileName(n), PNG, JPG) : n \in PlayerNames}
DownloadedNames == {composeImageFileName(n) : n \in PlayerNames}

\* the queues over a set of file names: every order, no duplicate
QueuesOver(names) ==
    UNION {{[i \in 1..Cardinality(S) |-> PHOTO_DIR \o order[i]] :
               order \in {o \in [1..Cardinality(S) -> S] :
                   \A i, j \in 1..Cardinality(S) : i # j => o[i] # o[j]}} :
           S \in SUBSET names}

\* the objects other devices can have stored in the bucket
RemoteNames ==
    {<<"a">> \o PNG, <<"b">> \o PNG, <<"a">> \o JPG, <<"c">> \o PNG}

\* a device after some use: captured photos, some of them still pending,
\* downloaded photos, and a bucket other devices write to as well
InitStore ==
    \E cap \in SUBSET CapturedNames, dl \in SUBSET DownloadedNames,
       objs \in SUBSET RemoteNames :
      /\ Cardinality(cap \cup dl) <= MaxFiles
      /\ Cardinality(objs) <= MaxRemote
      /\ Cardinality(cap \cup dl) + Cardinality(objs) <= MaxObjects
      /\ photoDir = [f \in cap \cup dl |->
                        IF f \in cap THEN Capture(0) ELSE RemoteImage]
      /\ pendingUploads \in QueuesOver(cap)
      /\ bucket = [f \in objs |-> RemoteImage]
      /\ config \in Configs

InitEngine ==
    /\ InitGlobals
    /\ InitStore
    /\ network = "unreliable"
    /\ \E active \in ActiveSets :
         /\ Cardinality(active) > 1 =>
               /\ Cardinality(DOMAIN photoDir) <= MaxShared
               /\ Cardinality(DOMAIN bucket) <= MaxShared
         /\ proc = [p \in Procs |-> IF p \in active THEN IdleProc ELSE OffProc]

NextEngine ==
    \E p \in Callers :
        \/ UploadAllStart(p) \/ SyncOnceStart(p)
        \/ SaveCopy(p) \/ AddRead(p) \/ AddWrite(p)
        \/ Call(p) \/ GateBegin(p) \/ GateWake(p) \/ RetryWake(p)
        \/ UploadSettle(p) \/ MarkRead(p) \/ MarkWrite(p)
        \/ DownloadMissingStart(p) \/ ListSettle(p) \/ LocalListed(p)
        \/ DownloadSettle(p) \/ Validate(p) \/ Delete(p)

Spec == InitEngine /\ [][NextEngine]_vars

\* the application built on services/supabaseService.js
NextLegacy ==
    \E p \in Callers :
        \/ LegacyUploadAllStart(p) \/ Call(p) \/ UploadSettle(p)
        \/ MarkRead(p) \/ MarkWrite(p)

SpecLegacy == InitEngine /\ [][NextLegacy]_vars

\* the settings screen alone, syncing once or twice: against a server that
\* answers every call by the state of the bucket, and on a small store
\* against one whose calls can fail
InitSync ==
    /\ InitGlobals
    /\ InitStore
    /\ network \in {"reliable", "unreliable"}
    /\ network = "unreliable" =>
          /\ Cardinality(DOMAIN photoDir) <= MaxShared
          /\ Cardinality(DOMAIN bucket) <= MaxShared
    /\ proc = [p \in Procs |-> IF p = "settings" THEN IdleProc ELSE OffProc]

\* the continuations of a sync that is under way
SyncStep(p) ==
    \/ SyncAfterDownload(p) \/ SyncAfterUpload(p)
    \/ Call(p) \/ GateWake(p) \/ RetryWake(p)
    \/ UploadSettle(p) \/ MarkRead(p) \/ MarkWrite(p)
    \/ ListSettle(p) \/ LocalListed(p)
    \/ DownloadSettle(p) \/ Validate(p) \/ Delete(p)

NextSync == SyncStart("settings") \/ SyncStep("settings")

SpecSync == InitSync /\ [][NextSync]_vars

\* every transport call settles, every sleep ends and every continuation of
\* the handler and of the engine functions runs (one at a time: the sync has
\* a single chain of awaits); nobody has to start a sync
FairSpecSync == SpecSync /\ WF_vars(SyncStep("settings"))

\* the syncs of the settings screen with a crash at any point of a sync
InitCrash ==
    /\ InitSync
    /\ Cardinality(DOMAIN photoDir) <= MaxShared
    /\ Cardinality(DOMAIN bucket) <= MaxShared

NextCrash == NextSync \/ Crash("settings")

SpecCrash == InitCrash /\ [][NextCrash]_vars

\* the settings screen downloads while the camera of the players screen
\* saves a photo
InitCapture ==
    /\ InitGlobals
    /\ InitStore
    /\ network \in {"reliable", "unreliable"}
    /\ Cardinality(DOMAIN photoDir) <= MaxShared
    /\ Cardinality(DOMAIN bucket) <= MaxShared
    /\ proc = [p \in Procs |->
                  IF p \in {"settings", "cam"} THEN IdleProc ELSE OffProc]

NextCapture ==
    \E p \in {"settings", "cam"} :
        \/ SaveCopy(p) \/ AddRead(p) \/ AddWrite(p)
        \/ DownloadMissingStart(p) \/ ListSettle(p) \/ LocalListed(p)
        \/ Call(p) \/ GateWake(p) \/ RetryWake(p)
        \/ DownloadSettle(p) \/ Validate(p) \/ Delete(p)

SpecCapture == InitCapture /\ [][NextCapture]_vars

\* the players screen looks up the photos of its players in a photo
\* directory nothing else writes to meanwhile
InitLookup ==
    /\ InitGlobals
    /\ InitStore
    /\ network = "reliable"
    /\ proc = [p \in Procs |-> IF p = "ui" THEN IdleProc ELSE OffProc]

NextLookup == ExistsStart("ui") \/ ExistsJpg("ui") \/ ExistsPng("ui")

SpecLookup == InitLookup /\ [][NextLookup]_vars

\* the validator and the steps of downloadFile around it, for every file a
\* 2xx download can have stored at the target path
FileSizes ==
    {0, 1023, 1024, 1025, 200 * 1024, 200 * 1024 + 1, 512 * 1024,
     512 * 1024 + 1}

FileInputs ==
    {NoFile} \cup
    {f \in [kind : {"body"}, ver : {0}, size : FileSizes,
            magic : {"png", "jpg", "none"}, marker : BOOLEAN,
            readable : BOOLEAN, utf8 : BOOLEAN] :
        /\ f.size = 0 => (f.magic = "none" /\ ~f.marker)
        /\ ~f.readable => ~f.utf8}

\* the frame of downloadMissingPhotos when the download of its only
\* candidate has answered 200 with `body` in stage n
Downloaded(name, body, n, legacy) ==
    LET e == [Entered(IdleProc, "downloadMissingPhotos", legacy, <<name>>)
                 EXCEPT !.remote = <<name>>, !.listed = TRUE,
                        !.mode = "listing", !.candidates = 1,
                        !.attempted = 1]
        b == [BeginStage(BeginDownload(e), n)
                 EXCEPT !.pc = "task_running", !.calls = 1]
    IN  [Settle(b, ResponseWith(200, body), Now) EXCEPT !.pc = "df_validate"]

InitValidator ==
    /\ InitGlobals
    /\ config = [url |-> TRUE, anonKey |-> TRUE]
    /\ network = "unreliable"
    /\ pendingUploads = <<>>
    /\ bucket = [f \in {<<"a">> \o PNG} |-> RemoteImage]
    /\ \E body \in FileInputs, n \in 1..3, legacy \in BOOLEAN :
         /\ photoDir = IF body = NoFile THEN <<>>
                       ELSE WriteFile(<<>>, <<"a">> \o PNG, body)
         /\ proc = [p \in Procs |->
                       IF p = "settings"
                       THEN Downloaded(<<"a">> \o PNG, body, n, legacy)
                       ELSE OffProc]

NextValidator == Validate("settings") \/ Delete("settings")

SpecValidator == InitValidator /\ [][NextValidator]_vars

(***************************************************************************)
(* The claims.                                                             *)
(***************************************************************************)

\* C1: uploadAllPhotos issues an upload request only for paths that are in
\* the pending-upload queue when it starts; a local file that is not in the
\* queue is never uploaded by it.
C1_OnlyQueuedUploaded ==
    \A req \in requests :
        (req.fn = "uploadAllPhotos" /\ req.op = "upload") => req.queued

\* C2: a path leaves the pending-upload queue only after an upload of that
\* path has returned a 2xx status.
C2_DequeuedAfterSuccess ==
    dequeued \subseteq uploadedOk

\* C3: uploadAllPhotos always returns normally with uploaded + failed equal
\* to the number of pending paths read at its start; downloadMissingPhotos,
\* once the listing has succeeded, always returns normally with downloaded +
\* failed equal to the number of download attempts it made; every item after
\* a failing one is still attempted.
C3_BatchNeverFails ==
    \A p \in Callers :
        LET r == proc[p]
        IN  /\ (r.pc = "done" /\ r.fn = "uploadAllPhotos") =>
                  /\ r.ret.kind = "returned"
                  /\ r.ret.uploaded + r.ret.failed = Len(r.queue0)
                  /\ r.attempted = Len(r.queue0)
            /\ (r.pc = "done" /\ r.fn = "downloadMissingPhotos" /\ r.listed) =>
                  /\ r.ret.kind = "returned"
                  /\ r.ret.downloaded + r.ret.failed = r.attempted
                  /\ r.attempted = Len(r.items)
            /\ (r.pc # "done" /\ r.i >= 1 /\ r.i <= Len(r.items)
                   /\ r.fn \in {"uploadAllPhotos", "downloadMissingPhotos"}) =>
                  r.attempted = r.i

\* the first of two downloads has failed and the second has stored its file
C3_Witness ==
    LET r == proc["settings"]
    IN  /\ r.pc = "done"
        /\ r.fn = "downloadMissingPhotos"
        /\ r.mode = "listing"
        /\ Len(r.items) = 2
        /\ r.ret = [kind |-> "returned", uploaded |-> 0, failed |-> 1,
                    downloaded |-> 1, skipped |-> 0]
        /\ r.items[1] \notin DOMAIN photoDir
        /\ r.items[2] \in DOMAIN photoDir
        /\ isValidImageFile(photoDir[r.items[2]])

\* C4: a task that answers with a retryable status (408, 429, >= 500) or
\* throws on every attempt is invoked exactly `attempts` times, never more,
\* and withRetry then fails with an error.
C4_RetryExhaustion ==
    \A p \in Drivers :
        LET r == proc[p]
            transient(o) == o.threw \/ o.status \in {408, 429} \/ o.status >= 500
        IN  r.viaRetry =>
              /\ r.calls <= r.attempts
              /\ Len(r.outs) <= r.calls
              /\ (/\ r.pc \in {"returned", "threw"}
                  /\ \A i \in 1..Len(r.outs) : transient(r.outs[i]))
                 => (r.pc = "threw" /\ r.result.threw /\ r.calls = r.attempts)

C4_Witness ==
    \E p \in Drivers :
        /\ proc[p].pc = "threw"
        /\ proc[p].attempts = 3
        /\ proc[p].calls = 3
        /\ \A i \in 1..3 : proc[p].outs[i] = Response(503)

\* C5: withRetry stops at the first attempt whose response is not retryable
\* and returns that response: no task is invoked after such a response, so
\* a first response 404 means one invocation and k-1 transient failures
\* followed by a permanent response mean k invocations.
C5_NoRetryOnPermanent ==
    \A p \in Drivers :
        LET r == proc[p]
            permanent(o) == ~o.threw /\ o.status \notin {408, 429} /\ o.status < 500
        IN  r.viaRetry =>
              \A i \in 1..Len(r.outs) :
                  permanent(r.outs[i]) =>
                      /\ i = Len(r.outs)
                      /\ r.pc = "returned"
                      /\ r.result = r.outs[i]
                      /\ r.calls = i

C5_Witness ==
    \E p \in Drivers :
        /\ proc[p].pc = "returned"
        /\ proc[p].calls = 3
        /\ Len(proc[p].outs) = 3
        /\ proc[p].outs[1] = Response(503)
        /\ proc[p].outs[2].threw
        /\ proc[p].outs[3] = Response(404)

\* C6: the n-th sleep of withRetry, between attempt n and attempt n+1, lasts
\* min(400 * 2^(n-1), 4000) ms; the delays never decrease, never exceed
\* 4000 ms, and no sleep follows the final attempt.
C6_BackoffDelays ==
    \A p \in Drivers :
        LET r == proc[p]
        IN  r.viaRetry =>
              /\ \A n \in 1..Len(r.sleeps) :
                     /\ r.sleeps[n] = (IF 400 * 2 ^ (n - 1) <= 4000
                                       THEN 400 * 2 ^ (n - 1) ELSE 4000)
                     /\ r.sleeps[n] <= 4000
                     /\ n > 1 => r.sleeps[n - 1] <= r.sleeps[n]
              /\ r.pc = "retry_backoff" => Len(r.sleeps) = r.calls
              /\ r.pc \in {"task_running", "returned", "threw"}
                     => Len(r.sleeps) = r.calls - 1

C6_Witness ==
    \E p \in Drivers :
        /\ proc[p].pc = "threw"
        /\ proc[p].attempts = 6
        /\ proc[p].sleeps = <<400, 800, 1600, 3200, 4000>>

\* C7: any two operations the gate executes one after the other are started
\* at least RATE_LIMIT_MS (200 ms) apart, also when operations throw.
C7_Spacing ==
    gateStarts.n = 2 => gateStarts.gap >= 200

\* C8: an error thrown by a scheduled operation is delivered to the caller
\* of that operation and to no other caller, and every operation queued
\* behind it still runs.
C8_FailureIsolation ==
    /\ [](\A p \in Drivers : proc[p].result.threw => proc[p].result.by = p)
    /\ \A p \in Drivers :
         (proc[p].pc = "gate_queued") ~> (proc[p].pc = "task_running")

C8_Witness ==
    \E a, b \in Drivers :
        /\ a # b
        /\ proc[a].pc = "threw"
        /\ proc[a].result = Thrown(a)
        /\ proc[b].ticket > proc[a].ticket
        /\ proc[b].pc = "task_running"

\* C9: every transport call of the engine (list, upload, each download
\* attempt) is issued from inside runWithRateLimit, itself inside withRetry:
\* the task of every attempt, the first and the retried ones, runs as the
\* head of the gate's chain, and no request is issued outside the gate.
C9_EveryCallGated ==
    /\ \A req \in requests : req.inGate /\ req.inRetry
    /\ \A p \in Callers :
          (proc[p].pc = "task_running" /\ proc[p].op \in TransportOps) =>
              /\ proc[p].viaRetry
              /\ proc[p].viaGate
              /\ rateLimiter.waiting # <<>>
              /\ Head(rateLimiter.waiting) = p

\* the retried attempt of a download runs inside the gate, after a listing
\* that went through it
C9_Witness ==
    LET r == proc["settings"]
    IN  /\ r.pc = "task_running"
        /\ r.op = "download"
        /\ r.attempt = 2
        /\ Head(rateLimiter.waiting) = "settings"
        /\ \E req \in requests : req.op = "list" /\ req.inGate
        /\ \E req \in requests : req.op = "download" /\ req.inGate

\* C10: in downloadMissingPhotos a listed object <name>.png is recognized as
\* already local, counted as skipped and not downloaded, when a local file
\* <name>.jpg exists for the same logical name, and vice versa.
C10_DualExtension ==
    LET r == proc["settings"]
        stem(n) == SubSeq(toLowerCase(n), 1, lastIndexOf(n, ".") - 1)
    IN  (/\ r.fn = "downloadMissingPhotos"
         /\ r.mode = "listing"
         /\ r.pc = "calling" /\ r.op = "download"
         /\ r.i = 1 /\ r.stage = 1 /\ r.attempt = 1) =>
            \A k \in 1..Len(r.items) : \A f \in DOMAIN photoDir :
                stem(f) # stem(r.items[k])

\* the file names downloadMissingPhotos expects for the player names l
ExpectedNames(l) ==
    {toLowerCase(replace(composeImageFileName(l[i]), PNG, e)) :
        i \in 1..Len(l), e \in {PNG, JPG, JPEG}}

\* C12: when the listing returns zero objects and expected names are
\* supplied, downloadMissingPhotos attempts a direct download for every
\* expected file name that is not present locally and for no name that is
\* present, instead of returning without a download attempt.
C12_DirectFallback ==
    /\ [][LET r == proc["settings"]
              t == proc["settings"]'
              wanted == ExpectedNames(r.players) \
                          {toLowerCase(f) : f \in DOMAIN photoDir}
          IN  (/\ r.pc = "dm_local" /\ t # r
               /\ r.remote = <<>> /\ r.players # <<>>) =>
                 /\ t.mode = "direct"
                 /\ Range(t.items) = wanted
                 /\ Len(t.items) = Cardinality(wanted)
                 /\ (wanted # {} => t.pc = "calling")]_vars
    /\ [](LET r == proc["settings"]
          IN  r.mode = "direct" =>
                /\ (r.pc = "done" => r.attempted = Len(r.items))
                /\ (r.op = "download" =>
                       /\ r.attempted = r.i
                       /\ r.fileName = r.items[r.i]))

\* a direct run has tried the two expected names that were not local
C12_Witness ==
    LET r == proc["settings"]
    IN  /\ r.pc = "done"
        /\ r.mode = "direct"
        /\ r.players = <<<<"a">>>>
        /\ r.items = <<<<"a">> \o PNG, <<"a">> \o JPEG>>
        /\ r.attempted = 2
        /\ r.ret.downloaded >= 1
        /\ (<<"a">> \o JPG) \in DOMAIN photoDir
        /\ photoDir[<<"a">> \o JPG].kind = "capture"

\* C13: when expected names are supplied, the listing is non-empty and no
\* listed object matches the expected set, downloadMissingPhotos treats every
\* listed object as a candidate: every one that is not present locally is
\* attempted.
C13_MismatchFallback ==
    /\ [][LET r == proc["settings"]
              t == proc["settings"]'
              local == {toLowerCase(f) : f \in DOMAIN photoDir}
              missing == SelectSeq(r.remote,
                             LAMBDA f : normalized(f) \notin local)
          IN  (/\ r.pc = "dm_local" /\ t # r
               /\ r.players # <<>> /\ r.remote # <<>>
               /\ \A k \in 1..Len(r.remote) :
                     normalized(r.remote[k]) \notin ExpectedNames(r.players)) =>
                 /\ t.mode = "listing"
                 /\ t.candidates = Len(r.remote)
                 /\ t.items = missing
                 /\ (missing # <<>> => t.pc = "calling")]_vars
    /\ [](LET r == proc["settings"]
          IN  r.mode = "listing" =>
                /\ (r.pc = "done" => r.attempted = Len(r.items))
                /\ (r.op = "download" =>
                       /\ r.attempted = r.i
                       /\ r.fileName = r.items[r.i]))

\* two listed objects, none of them expected, have both been downloaded
C13_Witness ==
    LET r == proc["settings"]
    IN  /\ r.pc = "done"
        /\ r.mode = "listing"
        /\ r.players = <<<<"a">>>>
        /\ r.remote = <<<<"b">> \o PNG, <<"c">> \o PNG>>
        /\ r.items = r.remote
        /\ r.ret.downloaded = 2
        /\ {<<"b">> \o PNG, <<"c">> \o PNG} \subseteq DOMAIN photoDir

\* C14: in every result of downloadMissingPhotos, skipped is the number of
\* candidates that were already present locally, and downloaded + skipped +
\* failed is the number of candidates considered, on the listing path and on
\* the direct-download path.
C14_DownloadAccounting ==
    LET r == proc["settings"]
    IN  (/\ r.pc = "done" /\ r.fn = "downloadMissingPhotos"
         /\ r.ret.kind = "returned") =>
            /\ r.ret.skipped = r.candidates - Len(r.items)
            /\ r.ret.downloaded + r.ret.skipped + r.ret.failed = r.candidates

\* C15: if the remote listing fails (non-success response or retries
\* exhausted), downloadMissingPhotos throws to its caller, returns no
\* result and issues no download request; candidates are only ever produced
\* from a listing that answered with a 2xx status.
C15_ListingFailurePropagates ==
    LET r == proc["settings"]
        ok(o) == ~o.threw /\ o.status >= 200 /\ o.status < 300
    IN  r.fn = "downloadMissingPhotos" =>
          /\ (r.pc = "dm_local" => r.listed /\ ok(r.result))
          /\ (r.listed => r.op # "list")
          /\ (~r.listed =>
                /\ r.mode = "none" /\ r.attempted = 0 /\ r.items = <<>>
                /\ r.op # "download"
                /\ r.downloaded = 0 /\ r.skipped = 0 /\ r.failed = 0
                /\ (r.pc = "done" => r.ret.kind = "threw"))

\* the listing of a configured device has been tried more than once and has
\* failed: the call has thrown without a download
C15_Witness ==
    LET r == proc["settings"]
    IN  /\ r.pc = "done"
        /\ r.fn = "downloadMissingPhotos"
        /\ getConfigOk
        /\ r.players # <<>>
        /\ DOMAIN bucket # {}
        /\ gateStarts.n = 2
        /\ r.ret = [NoRet EXCEPT !.kind = "threw"]
        /\ \E req \in requests : req.op = "list"

\* C18: when the base URL or the API key is absent, every engine operation
\* fails to its caller with the not-configured error and issues no network
\* call and no retry.
C18_MissingConfiguration ==
    ~getConfigOk =>
        /\ requests = {}
        /\ \A p \in Callers :
              /\ proc[p].pc \notin {"task_running", "retry_backoff"}
              /\ (proc[p].pc = "done" /\ proc[p].fn = "downloadMissingPhotos")
                    => proc[p].ret.kind = "threw"
              /\ (/\ proc[p].pc = "done" /\ proc[p].fn = "uploadAllPhotos"
                  /\ proc[p].queue0 # <<>>)
                    => proc[p].ret.kind = "threw"

\* C19: isValidImageFile returns false for every file that does not exist,
\* is smaller than 1024 bytes or contains an HTML / access-denied marker,
\* and whenever a downloaded file is rejected the engine deletes it from the
\* local directory and counts that item as failed.
C19_RejectsBadPayloads ==
    LET r == proc["settings"]
        stored == r.items[1] \in DOMAIN photoDir
    IN  r.fn = "downloadMissingPhotos" /\ r.mode = "listing" =>
          /\ r.downloaded = 1 =>
                /\ stored
                /\ photoDir[r.items[1]].size >= 1024
                /\ ~photoDir[r.items[1]].marker
          /\ (r.downloaded = 0 /\ r.pc \notin {"df_validate", "df_delete"}) =>
                /\ ~stored
                /\ r.failed = 1

\* C20: for every existing file of at least 1024 bytes whose leading bytes
\* are the PNG signature or the JPEG SOI marker (and that holds no HTML
\* marker), isValidImageFile returns true, also at exactly 1024 bytes and
\* when the text inspection of the content fails: such a file is never
\* rejected.
C20_AcceptsRealImages ==
    LET r == proc["settings"]
        f == ReadFile(r.localPath)
    IN  (r.pc = "df_delete" /\ ~r.legacy) =>
            ~(/\ f # NoFile
              /\ f.size >= 1024
              /\ f.magic \in {"png", "jpg"}
              /\ ~f.marker)

\* C17: within one sync of the settings screen no upload is requested before
\* the download phase of that sync has finished: while the download phase
\* runs no upload call is set up or in flight, the upload phase begins only
\* with the result of downloadMissingPhotos in hand, that result is only
\* returned once every item to download has been attempted and has either
\* succeeded or failed, and the upload phase makes no listing or download
\* request.
C17_DownloadFirst ==
    LET r == proc["settings"]
    IN  /\ r.sync = "download" =>
              (r.fn = "downloadMissingPhotos" /\ r.op # "upload")
        /\ (r.sync = "download" /\ r.pc = "done" /\ r.ret.kind = "returned") =>
              /\ r.attempted = Len(r.items)
              /\ r.downloaded + r.failed = Len(r.items)
        /\ r.sync = "upload" =>
              /\ r.fn = "uploadAllPhotos"
              /\ r.dl.kind = "returned"
              /\ r.op \notin {"list", "download"}

C17_Witness ==
    LET r == proc["settings"]
    IN  /\ r.sync = "upload"
        /\ r.op = "upload" /\ r.pc = "task_running"
        /\ r.dl.downloaded > 0
        /\ r.dl.failed > 0

\* C16: the two phases of a sync are independent: when the download phase
\* fails (downloadMissingPhotos throws), the upload phase still runs next,
\* and the summary shown at the end has as its failed count the sum of the
\* failed counts of both phases.
C16_PhaseIndependence ==
    /\ [][LET r == proc["settings"]
              t == proc["settings"]'
          IN  (/\ r.sync = "download" /\ r.pc = "done"
               /\ r.ret.kind = "threw" /\ t # r) =>
                  (t.sync = "upload" /\ t.fn = "uploadAllPhotos")]_vars
    /\ [](LET r == proc["settings"]
          IN  r.report.kind = "complete" =>
                  r.report.failed = r.dl.failed + r.ret.failed)

\* C11: a second sync that follows a completed one with the same player
\* names and nothing changed in between, against a server that answers
\* every call by the state of the bucket, reports uploaded 0, downloaded 0,
\* failed 0 and skipped equal to the number of candidates of its download
\* phase.
C11_Idempotence ==
    LET r == proc["settings"]
    IN  (/\ network = "reliable" /\ hasSupabaseConfig
         /\ r.syncs = 2 /\ r.sync = "none"
         /\ r.kind0 = "complete" /\ r.names = r.names0) =>
            /\ r.report.kind = "complete"
            /\ r.report.uploaded = 0
            /\ r.report.downloaded = 0
            /\ r.report.failed = 0
            /\ r.report.skipped = r.considered

\* C21: a validation failure is final for the item: when a download has
\* answered with a success status and the validator rejects the file, the
\* file is deleted, the item is counted failed and downloadMissingPhotos
\* moves on to the next item without another download request for it.
C21_ValidationFailureFinal ==
    [][\A p \in Callers :
         LET r == proc[p]
             t == proc[p]'
         IN  (r.pc = "df_delete" /\ t # r) =>
                 /\ r.fileName \notin DOMAIN photoDir'
                 /\ t.failed = r.failed + 1
                 /\ t.i = r.i + 1]_vars

\* C22: whenever the listing ends with a non-success response, a retryable
\* status that lasted until the retries were used up included, the error
\* listRemotePhotos throws is the list error and carries the status of that
\* response.
C22_ListErrorCarriesStatus ==
    \A p \in Callers :
        LET e == proc[p].error
        IN  (e.kind # "none" /\ e.last # 0) =>
                (e.kind = "list_failed" /\ e.status = e.last)

\* C23: after any sequence and interleaving of savePhoto (addPendingUpload)
\* and markUploaded calls, every path is at most once in the persisted
\* pending-upload queue.
C23_QueueHasNoDuplicates ==
    \A i, j \in 1..Len(pendingUploads) :
        i # j => pendingUploads[i] # pendingUploads[j]

\* savePhoto has returned with its new capture in the queue, and
\* markUploaded calls have rewritten the queue next to it
C23_Witness ==
    /\ proc["cam"].fn = "savePhoto" /\ proc["cam"].pc = "done"
    /\ \E f \in DOMAIN photoDir :
         /\ photoDir[f].kind = "capture" /\ photoDir[f].ver > 0
         /\ PHOTO_DIR \o f \in Range(pendingUploads)
    /\ dequeued # {}

\* the logical photo name of a file: its lowercased name without extension
LogicalName(f) == SubSeq(toLowerCase(f), 1, lastIndexOf(f, ".") - 1)

\* no two files of the directory have the same logical name
OnePerName(dir) ==
    \A f, g \in DOMAIN dir : LogicalName(f) = LogicalName(g) => f = g

\* C24: captures and downloads keep at most one local file per logical
\* photo name: no step of savePhoto or of a download adds a second file next
\* to the one the store holds for that name.
C24_OneRecordPerName ==
    [][OnePerName(photoDir) => OnePerName(photoDir')]_vars

\* C25: after a crash during a sync nothing is lost or skipped in the next
\* run on the same listing and player names: every download that had not
\* completed and validated is among the items the next run downloads, and
\* every upload that had not been confirmed is among the items the next run
\* uploads.
C25_CrashRediscovery ==
    [][LET r == proc["settings"]
           t == proc["settings"]'
       IN  /\ (/\ r.pc = "dm_local" /\ t # r
               /\ r.crashed.n > 0
               /\ r.remote = r.crashed.remote /\ r.names = r.names0) =>
                  r.crashed.downloads \subseteq Range(t.items)
           /\ (/\ r.sync = "download" /\ t.sync = "upload"
               /\ r.crashed.n > 0) =>
                  r.crashed.uploads \subseteq Range(t.items)]_vars

\* C26: under every interleaving of savePhoto with uploadAllPhotos and
\* syncOnce, the path of a photo that savePhoto has saved is in the
\* pending-upload queue until an upload of that path has succeeded.
C26_NoLostPendingEntry ==
    \A f \in DOMAIN photoDir :
        (/\ photoDir[f].kind = "capture" /\ photoDir[f].ver > 0
         /\ proc["cam"].pc = "done") =>
            \/ PHOTO_DIR \o f \in Range(pendingUploads)
            \/ PHOTO_DIR \o f \in uploadedOk

\* C27: at most one operation scheduled through runWithRateLimit is being
\* executed at any time (its callback has begun and its task has not
\* settled), and operations start in the order of the runWithRateLimit
\* calls: whatever has begun was called before everything still queued, and
\* whatever has settled was called before everything that has not.
C27_GateSerialization ==
    \A p, q \in Drivers :
        p # q =>
            /\ ~(/\ proc[p].pc \in {"gate_sleep", "task_running"}
                 /\ proc[q].pc \in {"gate_sleep", "task_running"})
            /\ (/\ proc[p].pc \in {"gate_sleep", "task_running"}
                /\ proc[q].pc = "gate_queued") =>
                   proc[p].ticket < proc[q].ticket
            /\ (/\ proc[p].pc \in {"returned", "threw"}
                /\ proc[q].pc \in {"gate_queued", "gate_sleep",
                                   "task_running"}) =>
                   proc[p].ticket < proc[q].ticket

\* three concurrent callers: the first has thrown, the second is running
\* and the third is queued
C27_Witness ==
    \E a, b, c \in Drivers :
        /\ proc[a].pc = "threw"
        /\ proc[b].pc = "task_running"
        /\ proc[c].pc = "gate_queued"
        /\ rateLimiter.waiting = <<b, c>>

\* C28: when player names are supplied and at least one listed object has
\* an expected file name, downloadMissingPhotos downloads only listed
\* objects whose normalized name is in the expected set: its items are such
\* objects and every download request of the run is for one of its items.
C28_ExpectedNameFilter ==
    LET r == proc["settings"]
        expected == ExpectedNames(r.players)
    IN  (/\ r.fn = "downloadMissingPhotos" /\ r.mode # "none"
         /\ r.players # <<>>
         /\ \E k \in 1..Len(r.remote) : normalized(r.remote[k]) \in expected) =>
            /\ r.mode = "listing"
            /\ \A k \in 1..Len(r.items) :
                  /\ r.items[k] \in Range(r.remote)
                  /\ normalized(r.items[k]) \in expected
            /\ r.op = "download" =>
                  (r.i \in 1..Len(r.items) /\ r.fileName = r.items[r.i])

\* the listing holds an expected object and another one; the expected one
\* is being downloaded
C28_Witness ==
    LET r == proc["settings"]
    IN  /\ r.fn = "downloadMissingPhotos" /\ r.mode = "listing"
        /\ r.players # <<>>
        /\ \E k \in 1..Len(r.remote) :
              normalized(r.remote[k]) \notin ExpectedNames(r.players)
        /\ r.op = "download" /\ r.pc = "task_running"
        /\ normalized(r.fileName) \in ExpectedNames(r.players)

\* C29: downloadFile asks the public URL without credentials first and an
\* authenticated URL only after an earlier stage has not given a valid file;
\* it returns (the item is counted downloaded) only when its last response
\* had a 2xx status and the file passed the validator, and it throws (the
\* item is counted failed) in every other case.
C29_DownloadOutcome ==
    [][LET r == proc["settings"]
           t == proc["settings"]'
           ok(o) == ~o.threw /\ o.status >= 200 /\ o.status < 300
           inFile(x) == x.fn = "downloadMissingPhotos" /\ x.fileName # <<>>
       IN  /\ (inFile(t) /\ (~inFile(r) \/ t.i # r.i)) =>
                  (t.stage = 1 /\ t.pc = "calling" /\ t.op = "download")
           /\ (inFile(r) /\ inFile(t) /\ t.i = r.i /\ t.stage # r.stage) =>
                  /\ t.stage > r.stage
                  /\ r.pc \in {"df_delete", "task_running"}
           /\ (inFile(r) /\ r.pc = "df_validate"
                         /\ isValidImageFile(ReadFile(r.localPath))) =>
                  (t.downloaded = r.downloaded + 1 /\ t.i = r.i + 1)
           /\ (r.fn = "downloadMissingPhotos"
                  /\ t.downloaded = r.downloaded + 1) =>
                  /\ r.pc = "df_validate"
                  /\ ok(r.result)
                  /\ isValidImageFile(ReadFile(r.localPath))
           /\ (inFile(r) /\ t.fn = r.fn /\ t.i = r.i + 1
                         /\ t.downloaded = r.downloaded) =>
                  t.failed = r.failed + 1]_vars

\* the private URL has answered 2xx with a valid file after the public URL
\* had not
C29_Witness ==
    LET r == proc["settings"]
    IN  /\ r.fn = "downloadMissingPhotos"
        /\ r.pc = "df_validate" /\ r.stage = 3
        /\ r.result.status = 200
        /\ isValidImageFile(ReadFile(r.localPath))

\* C30: when downloadFile fails for a name, whatever the reason, no file is
\* left at the target path of that name.
C30_FailedDownloadLeavesNothing ==
    [][LET r == proc["settings"]
           t == proc["settings"]'
       IN  (/\ r.fn = "downloadMissingPhotos" /\ r.fileName # <<>>
            /\ t.fn = r.fn /\ t.failed = r.failed + 1) =>
               r.fileName \notin DOMAIN photoDir']_vars

\* C31: when a photo is captured again while an upload of its path is in
\* flight, the path is still pending after markUploaded of that upload has
\* written the queue; and whenever the queue is empty and no caller is at
\* work, the bucket holds the latest content of every photo captured.
C31_LatestCaptureReachesRemote ==
    /\ [][\A p \in Callers :
             LET r == proc[p]
             IN  (/\ r.pc = "mark_set" /\ proc[p]' # r
                  /\ ReadFile(r.localPath) # r.inflight) =>
                     r.path \in Range(pendingUploads')]_vars
    /\ []((/\ pendingUploads = <<>>
           /\ \A p \in Callers : proc[p].pc \in {"idle", "done", "off"}) =>
              \A f \in DOMAIN photoDir :
                  (photoDir[f].kind = "capture" /\ photoDir[f].ver > 0) =>
                      (f \in DOMAIN bucket /\ bucket[f] = photoDir[f]))

\* C32: under every interleaving of downloadMissingPhotos with savePhoto, no
\* step of a download writes or removes the file of a captured photo whose
\* path is in the pending-upload queue: such a file changes only by a new
\* capture.
C32_DownloadKeepsCaptures ==
    [][\A f \in DOMAIN photoDir :
         (/\ photoDir[f].kind = "capture"
          /\ PHOTO_DIR \o f \in Range(pendingUploads)) =>
             /\ f \in DOMAIN photoDir'
             /\ photoDir'[f].kind = "capture"]_vars

\* C33: every sync that has been started reaches its report and clears the
\* syncing flag, on success and on every error, provided every transport
\* call settles; on the way no operation is attempted more than
\* RETRY_ATTEMPTS times and no item is taken up twice.
C33_SyncTerminates ==
    /\ (proc["settings"].sync # "none") ~>
           (/\ proc["settings"].sync = "none"
            /\ proc["settings"].report.kind \in {"complete", "error"})
    /\ [](proc["settings"].sync # "none" =>
             /\ proc["settings"].attempt <= RETRY_ATTEMPTS
             /\ proc["settings"].attempted <= Len(proc["settings"].items))

\* a sync has ended with its summary after downloads that worked and
\* transfers that failed
C33_Witness ==
    /\ proc["settings"].sync = "none"
    /\ proc["settings"].report.kind = "complete"
    /\ proc["settings"].report.downloaded > 0
    /\ proc["settings"].report.failed > 0

\* C34: photoExists returns the .jpg path of the player whenever that file
\* exists, also when the .png file exists as well; it returns the .png path
\* only when the .jpg file does not exist and the .png file does, and null
\* only when neither exists
C34_JpgBeforePng ==
    [][\A p \in Callers :
         LET r == proc[p]
             name == composeImageFileName(r.players[1])
             png == name
             jpg == SubSeq(name, 1, Len(name) - Len(PNG)) \o JPG
             hasJpg == jpg \in DOMAIN photoDir
             hasPng == png \in DOMAIN photoDir
             out == proc[p]'.found
         IN  (/\ r.fn = "photoExists"
              /\ r.pc \in {"exists_jpg", "exists_png"}
              /\ proc[p]'.pc = "done")
             => /\ hasJpg => out = Found(PHOTO_DIR \o jpg)
                /\ (~out.null /\ out.path = PHOTO_DIR \o png)
                       => ~hasJpg /\ hasPng
                /\ out.null => ~hasJpg /\ ~hasPng
                /\ out.null \/ out.path \in {PHOTO_DIR \o jpg,
                                              PHOTO_DIR \o png}]_vars

\* a lookup has returned the .jpg path of a player who has both files
C34_Witness ==
    /\ proc["ui"].fn = "photoExists"
    /\ proc["ui"].pc = "done"
    /\ ~proc["ui"].found.null
    /\ \E f \in DOMAIN photoDir, g \in DOMAIN photoDir :
          /\ f # g
          /\ LogicalName(f) = LogicalName(g)
          /\ proc["ui"].found.path = PHOTO_DIR \o f
          /\ SubSeq(f, Len(f) - Len(JPG) + 1, Len(f)) = JPG

\* C35: a markUploaded(path) that completes leaves in the stored queue
\* exactly the entries it held before other than path, in the same order;
\* when path is not in the queue the queue stays as it is
C35_MarkUploadedFrame ==
    [][\A p \in Callers :
         (proc[p].pc = "mark_set" /\ proc[p]'.pc # "mark_set")
            => pendingUploads' =
                  SelectSeq(pendingUploads, LAMBDA q : q # proc[p].path)]_vars

====
